---------------------------- MODULE Spec2Model ----------------------------
(***************************************************************************)
(* Model of the plugin editor template (templates/src/PluginEditor.cpp):   *)
(* the editor's construction and teardown, the resource provider that      *)
(* serves the bundled web UI, and the timer-driven visualizer event.       *)
(*                                                                         *)
(* Strings the code inspects character by character (URLs, paths) are      *)
(* sequences of one-character strings, so that startsWith, substring and   *)
(* endsWith are computed and not assumed.  A file location is the sequence *)
(* of its path segments from the filesystem root.                          *)
(***************************************************************************)
EXTENDS Naturals, Sequences, FiniteSets

VARIABLES
    pc,            \* position of the editor: a constructor step, "running", "destroyed"
    devMode,       \* the {{PLUGIN_NAME_UPPER}}_DEV_MODE build flag
    fs,            \* the regular files on disk: location -> bytes
    relays,        \* the relays the editor owns: member -> [identifier, kind]
    resourcesDir,  \* juce::File resourcesDir
    options,       \* the WebBrowserComponent::Options being built
    webView,       \* the WebBrowserComponent, or Null
    currentURL,    \* the URL the web view was sent to
    attachments,   \* the parameter attachments: member -> [parameter, relay, kind]
    timerHz,       \* the rate of the running timer, 0 when it is stopped
    visible,       \* whether the browser is visible
    ticks,         \* timer callbacks run so far
    delivered,     \* events delivered to the web UI
    lastUrl,       \* the URL of the last request the resource provider served
    lastResponse,  \* what the provider returned for it
    lastRead,      \* the file it loaded for it, or Null
    apvtsParams,   \* the parameter identifiers the processor's APVTS holds
    created,       \* what the editor has created, in order
    destroyed      \* what the editor has stopped or destroyed, in order

vars == <<pc, devMode, fs, relays, resourcesDir, options, webView, currentURL,
          attachments, timerHz, visible, ticks, delivered, lastUrl,
          lastResponse, lastRead, apvtsParams, created, destroyed>>

---------------------------------------------------------------------------
(* Bounds of the model *)

\* the longest run of prefix tokens ("/", "../", "./") put before a name in a URL
MaxPrefix == 2
\* the number of timer callbacks followed
MaxTicks == 2

---------------------------------------------------------------------------
(* juce::String operations used by the resource provider *)

startsWith(s, p) == Len(s) >= Len(p) /\ SubSeq(s, 1, Len(p)) = p

endsWith(s, p) == Len(s) >= Len(p) /\ SubSeq(s, Len(s) - Len(p) + 1, Len(s)) = p

\* substring(1): the string without its first character
substring1(s) == SubSeq(s, 2, Len(s))

---------------------------------------------------------------------------
(* Files *)

\* an empty std::unique_ptr or std::optional is the empty sequence, a held value
\* v is << v >>
Null == << >>
Some(v) == << v >>
\* std::nullopt
NotFound == Null

\* the directory of the executable
ExeDir == << <<"P", "l", "u", "g", "i", "n">> >>

\* currentExecutableFile.getParentDirectory().getChildFile("Resources").getChildFile("WebUI")
ResourcesDirOf(exeDir) == exeDir \o << <<"R", "e", "s", "o", "u", "r", "c", "e", "s">>, <<"W", "e", "b", "U", "I">> >>

RootDir == ResourcesDirOf(ExeDir)

\* the segments of a path: the pieces between its separators
RECURSIVE Segments(_)
Segments(path) ==
    IF \A i \in 1..Len(path) : path[i] # "/"
    THEN << path >>
    ELSE LET k == CHOOSE i \in 1..Len(path) :
                      path[i] = "/" /\ \A j \in 1..(i - 1) : path[j] # "/"
         IN  << SubSeq(path, 1, k - 1) >> \o Segments(SubSeq(path, k + 1, Len(path)))

\* a location followed along segments: ".." goes to the parent, "." and an
\* empty segment stay
RECURSIVE Walk(_, _)
Walk(loc, segs) ==
    IF segs = << >> THEN loc
    ELSE LET s == Head(segs)
             next == IF s = <<".", ".">>
                     THEN (IF loc = << >> THEN loc ELSE SubSeq(loc, 1, Len(loc) - 1))
                     ELSE IF s = <<".">> \/ s = << >> THEN loc
                     ELSE Append(loc, s)
         IN  Walk(next, Tail(segs))

\* juce::File::getChildFile: the file a relative path names from this
\* directory, leading "../" and "./" resolved; an absolute path is taken as it
\* is.  The URLs of the model carry ".." and "." only in front of a name.
getChildFile(dir, path) ==
    IF startsWith(path, <<"/">>) THEN Walk(<< >>, Segments(path))
    ELSE Walk(dir, Segments(path))

\* juce::File::existsAsFile: a regular file is there
existsAsFile(file) == file \in DOMAIN fs

\* the files that may be on disk: the bundled web UI, and files outside it
BundledAssets ==
    { RootDir \o << n >> : n \in { <<"a", ".", "h", "t", "m", "l">>, <<"a", ".", "c", "s", "s">>, <<"a", ".", "j", "s">>, <<"a", ".", "j", "s", "o", "n">>, <<"a", ".", "p", "n", "g">>,
                                   <<"a", ".", "j", "p", "g">>, <<"a", ".", "j", "p", "e", "g">>, <<"a", ".", "s", "v", "g">>, <<"a", ".", "w", "o", "f", "f">>, <<"a", ".", "w", "o", "f", "f", "2">>,
                                   <<"a", ".", "b", "i", "n">>, <<"a", ".", "J", "S">>, <<"j", "s">> } }
    \cup { RootDir \o << <<"s", "u", "b">>, <<"b", ".", "c", "s", "s">> >> }

IndexFile == RootDir \o << <<"i", "n", "d", "e", "x", ".", "h", "t", "m", "l">> >>
InnerSecret == RootDir \o << <<"s", "e", "c", "r", "e", "t">> >>
OuterSecret == ExeDir \o << <<"R", "e", "s", "o", "u", "r", "c", "e", "s">>, <<"s", "e", "c", "r", "e", "t">> >>
TopSecret == << <<"s", "e", "c", "r", "e", "t">> >>

OptionalFiles == { IndexFile, InnerSecret, OuterSecret, TopSecret }

\* the bytes of a file: the file's own location, so that no two files hold the same
BytesOf(file) == << "bytes of", file >>

FileSystems == { [f \in BundledAssets \cup S |-> BytesOf(f)] : S \in SUBSET OptionalFiles }

---------------------------------------------------------------------------
(* The resource provider, lines 75-108 *)

RECURSIVE StripAllSeparators(_)
StripAllSeparators(s) == IF startsWith(s, <<"/">>) THEN StripAllSeparators(substring1(s)) ELSE s

NormalizedPath_StripAll(url) ==
    LET path == StripAllSeparators(url)
    IN  IF path = << >> THEN <<"i", "n", "d", "e", "x", ".", "h", "t", "m", "l">> ELSE path

\* lines 77-81: one leading separator stripped, the empty path is index.html
NormalizedPath(url) ==
    LET path == IF startsWith(url, <<"/">>) THEN substring1(url) ELSE url
    IN  IF path = << >> THEN <<"i", "n", "d", "e", "x", ".", "h", "t", "m", "l">> ELSE path

contains(s, p) == \E i \in 1..(Len(s) - Len(p) + 1) : SubSeq(s, i, i + Len(p) - 1) = p

MimeTypeOf_Contains(path) ==
    IF contains(path, <<".", "h", "t", "m", "l">>) THEN "text/html"
    ELSE IF contains(path, <<".", "c", "s", "s">>) THEN "text/css"
    ELSE IF contains(path, <<".", "j", "s">>) THEN "application/javascript"
    ELSE IF contains(path, <<".", "j", "s", "o", "n">>) THEN "application/json"
    ELSE IF contains(path, <<".", "p", "n", "g">>) THEN "image/png"
    ELSE IF contains(path, <<".", "j", "p", "g">>) \/ contains(path, <<".", "j", "p", "e", "g">>) THEN "image/jpeg"
    ELSE IF contains(path, <<".", "s", "v", "g">>) THEN "image/svg+xml"
    ELSE IF contains(path, <<".", "w", "o", "f", "f">>) THEN "font/woff"
    ELSE IF contains(path, <<".", "w", "o", "f", "f", "2">>) THEN "font/woff2"
    ELSE "application/octet-stream"

\* lines 88-97
MimeTypeOf(path) ==
    IF endsWith(path, <<".", "h", "t", "m", "l">>) THEN "text/html"
    ELSE IF endsWith(path, <<".", "c", "s", "s">>) THEN "text/css"
    ELSE IF endsWith(path, <<".", "j", "s">>) THEN "application/javascript"
    ELSE IF endsWith(path, <<".", "j", "s", "o", "n">>) THEN "application/json"
    ELSE IF endsWith(path, <<".", "p", "n", "g">>) THEN "image/png"
    ELSE IF endsWith(path, <<".", "j", "p", "g">>) \/ endsWith(path, <<".", "j", "p", "e", "g">>) THEN "image/jpeg"
    ELSE IF endsWith(path, <<".", "s", "v", "g">>) THEN "image/svg+xml"
    ELSE IF endsWith(path, <<".", "w", "o", "f", "f">>) THEN "font/woff"
    ELSE IF endsWith(path, <<".", "w", "o", "f", "f", "2">>) THEN "font/woff2"
    ELSE "application/octet-stream"

\* line 83
RequestedFile(dir, url) == getChildFile(dir, NormalizedPath(url))

\* the lambda's result: std::nullopt, or the file's bytes and MIME type
ResourceProvider(dir, url) ==
    LET path == NormalizedPath(url)
        file == RequestedFile(dir, url)
    IN  IF ~existsAsFile(file) THEN NotFound
        ELSE Some([data |-> fs[file], mimeType |-> MimeTypeOf(path)])

\* the URLs the web view asks for: a name behind up to MaxPrefix prefix tokens
PrefixTokens == { <<"/">>, <<".", ".", "/">>, <<".", "/">> }

RECURSIVE Prefixes(_)
Prefixes(n) ==
    IF n = 0 THEN { << >> }
    ELSE Prefixes(n - 1) \cup { t \o p : t \in PrefixTokens, p \in Prefixes(n - 1) }

RequestNames ==
    { << >>, <<"i", "n", "d", "e", "x", ".", "h", "t", "m", "l">>, <<"s", "e", "c", "r", "e", "t">>, <<"m", "i", "s", "s", "i", "n", "g", ".", "p", "n", "g">>, <<"s", "u", "b">>, <<"s", "u", "b", "/", "b", ".", "c", "s", "s">>,
      <<"a", ".", "h", "t", "m", "l">>, <<"a", ".", "c", "s", "s">>, <<"a", ".", "j", "s">>, <<"a", ".", "j", "s", "o", "n">>, <<"a", ".", "p", "n", "g">>, <<"a", ".", "j", "p", "g">>, <<"a", ".", "j", "p", "e", "g">>,
      <<"a", ".", "s", "v", "g">>, <<"a", ".", "w", "o", "f", "f">>, <<"a", ".", "w", "o", "f", "f", "2">>, <<"a", ".", "b", "i", "n">>, <<"a", ".", "J", "S">>, <<"j", "s">> }

RequestUrls == { p \o n : p \in Prefixes(MaxPrefix), n \in RequestNames }

\* the URLs followed through the editor's whole life
ShellUrls == { << >>, <<"/">>, <<"/", "i", "n", "d", "e", "x", ".", "h", "t", "m", "l">>, <<"/", "a", ".", "j", "s">>, <<"/", "m", "i", "s", "s", "i", "n", "g", ".", "p", "n", "g">>, <<"/", ".", ".", "/", "s", "e", "c", "r", "e", "t">> }

---------------------------------------------------------------------------
(* The editor *)

DEV_SERVER_URL == "http://localhost:5173"
ResourceProviderRoot == "getResourceProviderRoot()"
TimerHz == 30

RelayIds == { "gain", "mix", "bypass" }

\* lines 155-161: ParamIDs::gain, ParamIDs::mix, ParamIDs::bypass
ParameterIds == { "gain", "mix", "bypass" }

\* the editor's relay members
RelaySlots == { "gainRelay", "mixRelay", "bypassRelay" }

\* lines 50-54: each relay member with the identifier and the kind it is made with
CreatedRelays ==
    [slot \in RelaySlots |->
        CASE slot = "gainRelay" -> [identifier |-> "gain", kind |-> "WebSliderRelay"]
          [] slot = "mixRelay" -> [identifier |-> "mix", kind |-> "WebSliderRelay"]
          [] slot = "bypassRelay" -> [identifier |-> "bypass", kind |-> "WebToggleButtonRelay"]]

\* lines 110-112: the relays handed to withOptionsFrom
RegisteredRelays == { "gainRelay", "mixRelay", "bypassRelay" }

\* lines 70-121: the options, with the relays of rs registered
BuiltOptions(rs) ==
    [resourceProvider |-> TRUE,
     relays |-> { [identifier |-> rs[slot].identifier, kind |-> rs[slot].kind] :
                  slot \in RegisteredRelays \cap DOMAIN rs }]

\* the editor's attachment members
AttachmentSlots == { "gainAttachment", "mixAttachment", "bypassAttachment" }

CreatedAttachments_SameRelay ==
    [slot \in AttachmentSlots |->
        CASE slot = "gainAttachment" ->
                 [parameter |-> "gain", relay |-> "gainRelay",
                  kind |-> "WebSliderParameterAttachment"]
          [] slot = "mixAttachment" ->
                 [parameter |-> "mix", relay |-> "gainRelay",
                  kind |-> "WebSliderParameterAttachment"]
          [] slot = "bypassAttachment" ->
                 [parameter |-> "bypass", relay |-> "bypassRelay",
                  kind |-> "WebToggleButtonParameterAttachment"]]

\* lines 154-161: each attachment member with the parameter it looks up
\* (ParamIDs::gain, ::mix, ::bypass) and the relay member it is given
CreatedAttachments ==
    [slot \in AttachmentSlots |->
        CASE slot = "gainAttachment" ->
                 [parameter |-> "gain", relay |-> "gainRelay",
                  kind |-> "WebSliderParameterAttachment"]
          [] slot = "mixAttachment" ->
                 [parameter |-> "mix", relay |-> "mixRelay",
                  kind |-> "WebSliderParameterAttachment"]
          [] slot = "bypassAttachment" ->
                 [parameter |-> "bypass", relay |-> "bypassRelay",
                  kind |-> "WebToggleButtonParameterAttachment"]]

InitialURL_AlwaysRoot(dev) == ResourceProviderRoot

\* lines 130-136
InitialURL(dev) == IF dev THEN DEV_SERVER_URL ELSE ResourceProviderRoot

\* the order of the constructor's statements, lines 23-31, 50-136 and 151-161:
\* the step that follows each step
NextStep_WebViewFirst(step) ==
    CASE step = "CreateRelays" -> "SetResourcesDir"
      [] step = "SetResourcesDir" -> "CreateWebView"
      [] step = "CreateWebView" -> "BuildOptions"
      [] step = "BuildOptions" -> "Navigate"
      [] step = "Navigate" -> "CreateAttachments"
      [] step = "CreateAttachments" -> "StartTimer"
      [] step = "StartTimer" -> "running"

NextStep_TimerBeforeAttachments(step) ==
    CASE step = "CreateRelays" -> "SetResourcesDir"
      [] step = "SetResourcesDir" -> "BuildOptions"
      [] step = "BuildOptions" -> "CreateWebView"
      [] step = "CreateWebView" -> "Navigate"
      [] step = "Navigate" -> "StartTimer"
      [] step = "StartTimer" -> "CreateAttachments"
      [] step = "CreateAttachments" -> "running"

NextStep(step) ==
    CASE step = "CreateRelays" -> "SetResourcesDir"
      [] step = "SetResourcesDir" -> "BuildOptions"
      [] step = "BuildOptions" -> "CreateWebView"
      [] step = "CreateWebView" -> "Navigate"
      [] step = "Navigate" -> "CreateAttachments"
      [] step = "CreateAttachments" -> "StartTimer"
      [] step = "StartTimer" -> "running"

Init ==
    /\ pc = "CreateRelays"
    /\ devMode \in BOOLEAN
    /\ fs \in FileSystems
    /\ relays = << >>
    /\ resourcesDir = << >>
    /\ options = [resourceProvider |-> FALSE, relays |-> {}]
    /\ webView = Null
    /\ currentURL = Null
    /\ attachments = << >>
    /\ timerHz = 0
    /\ visible = FALSE
    /\ ticks = 0
    /\ delivered = 0
    /\ lastUrl = Null
    /\ lastResponse = NotFound
    /\ lastRead = Null
    /\ apvtsParams \in SUBSET ParameterIds
    /\ created = << >>
    /\ destroyed = << >>

\* setupWebView STEP 1, lines 50-54
CreateRelays ==
    /\ pc = "CreateRelays"
    /\ relays' = CreatedRelays
    /\ created' = Append(created, "relays")
    /\ pc' = NextStep("CreateRelays")
    /\ UNCHANGED <<devMode, fs, resourcesDir, options, webView, currentURL, attachments,
                   timerHz, visible, ticks, delivered, lastUrl, lastResponse, lastRead,
                   apvtsParams, destroyed>>

\* setupWebView STEP 2, lines 62-65
SetResourcesDir ==
    /\ pc = "SetResourcesDir"
    /\ resourcesDir' = ResourcesDirOf(ExeDir)
    /\ pc' = NextStep("SetResourcesDir")
    /\ UNCHANGED <<devMode, fs, relays, options, webView, currentURL, attachments,
                   timerHz, visible, ticks, delivered, lastUrl, lastResponse, lastRead,
                   apvtsParams, created, destroyed>>

\* setupWebView STEP 3, lines 70-121
BuildOptions ==
    /\ pc = "BuildOptions"
    /\ options' = BuiltOptions(relays)
    /\ pc' = NextStep("BuildOptions")
    /\ UNCHANGED <<devMode, fs, relays, resourcesDir, webView, currentURL, attachments,
                   timerHz, visible, ticks, delivered, lastUrl, lastResponse, lastRead,
                   apvtsParams, created, destroyed>>

\* lines 124-125: the web view takes the options as they are now
CreateWebView ==
    /\ pc = "CreateWebView"
    /\ webView' = Some([options |-> options])
    /\ visible' = TRUE
    /\ created' = Append(created, "webView")
    /\ pc' = NextStep("CreateWebView")
    /\ UNCHANGED <<devMode, fs, relays, resourcesDir, options, currentURL, attachments,
                   timerHz, ticks, delivered, lastUrl, lastResponse, lastRead,
                   apvtsParams, destroyed>>

\* setupWebView STEP 4, lines 130-136
Navigate ==
    /\ pc = "Navigate"
    /\ currentURL' = Some(InitialURL(devMode))
    /\ pc' = NextStep("Navigate")
    /\ UNCHANGED <<devMode, fs, relays, resourcesDir, options, webView, attachments,
                   timerHz, visible, ticks, delivered, lastUrl, lastResponse, lastRead,
                   apvtsParams, created, destroyed>>

\* lines 154-161: the order in which the attachments are made
AttachmentOrder == << "gainAttachment", "mixAttachment", "bypassAttachment" >>

\* apvts.getParameter(id) returns nullptr for an identifier the APVTS does not hold
getParameterFails(a) == CreatedAttachments[a].parameter \notin apvtsParams

\* the attachments made before the first whose parameter lookup fails
MadeBeforeFailure ==
    LET first == CHOOSE i \in 1..Len(AttachmentOrder) :
                     /\ getParameterFails(AttachmentOrder[i])
                     /\ \A j \in 1..(i - 1) : ~getParameterFails(AttachmentOrder[j])
    IN  [a \in { AttachmentOrder[j] : j \in 1..(first - 1) } |-> CreatedAttachments[a]]

\* setupRelaysAndAttachments, lines 151-161.  *apvts.getParameter(id) is not
\* tested: with an unknown identifier it dereferences nullptr, which is undefined
\* behaviour.  The build may stop there, or go on with an attachment bound to
\* the null reference.
CreateAttachments ==
    /\ pc = "CreateAttachments"
    /\ \/ /\ \A a \in AttachmentSlots : ~getParameterFails(a)
          /\ attachments' = CreatedAttachments
          /\ created' = Append(created, "attachments")
          /\ pc' = NextStep("CreateAttachments")
       \/ /\ \E a \in AttachmentSlots : getParameterFails(a)
          /\ attachments' = MadeBeforeFailure
          /\ created' = created
          /\ pc' = "crashed"
       \/ /\ \E a \in AttachmentSlots : getParameterFails(a)
          /\ attachments' = CreatedAttachments
          /\ created' = Append(created, "attachments")
          /\ pc' = NextStep("CreateAttachments")
    /\ UNCHANGED <<devMode, fs, relays, resourcesDir, options, webView, currentURL,
                   timerHz, visible, ticks, delivered, lastUrl, lastResponse, lastRead,
                   apvtsParams, destroyed>>

\* the rest of the constructor, lines 27-31
StartTimer ==
    /\ pc = "StartTimer"
    /\ timerHz' = TimerHz
    /\ created' = Append(created, "timer")
    /\ pc' = NextStep("StartTimer")
    /\ UNCHANGED <<devMode, fs, relays, resourcesDir, options, webView, currentURL,
                   attachments, visible, ticks, delivered, lastUrl, lastResponse, lastRead,
                   apvtsParams, destroyed>>

\* the web view asks the resource provider for a URL: the lambda is entered
ResourceRequest(url) ==
    /\ pc = "running"
    /\ webView # Null
    /\ webView[1].options.resourceProvider
    /\ lastUrl' = Some(url)
    /\ lastResponse' = NotFound
    /\ lastRead' = Null
    /\ pc' = "ResourceProvider"
    /\ UNCHANGED <<devMode, fs, relays, resourcesDir, options, webView, currentURL,
                   attachments, timerHz, visible, ticks, delivered,
                   apvtsParams, created, destroyed>>

\* line 100, loadFileAsData: the file the lambda reads for a URL, if any
LoadedFile(dir, url) ==
    IF existsAsFile(RequestedFile(dir, url)) THEN Some(RequestedFile(dir, url)) ELSE Null

\* the resource provider lambda runs and returns, lines 75-108
ServeRequest ==
    /\ pc = "ResourceProvider"
    /\ lastResponse' = ResourceProvider(resourcesDir, lastUrl[1])
    /\ lastRead' = LoadedFile(resourcesDir, lastUrl[1])
    /\ pc' = "running"
    /\ UNCHANGED <<devMode, fs, relays, resourcesDir, options, webView, currentURL,
                   attachments, timerHz, visible, ticks, delivered, lastUrl,
                   apvtsParams, created, destroyed>>

\* the host shows or hides the editor window
SetVisible(b) ==
    /\ pc = "running"
    /\ webView # Null
    /\ visible # b
    /\ visible' = b
    /\ UNCHANGED <<pc, devMode, fs, relays, resourcesDir, options, webView, currentURL,
                   attachments, timerHz, ticks, delivered, lastUrl, lastResponse, lastRead,
                   apvtsParams, created, destroyed>>

emitEventAlways(isVisible, sent) == sent + 1

\* line 196, emitEventIfBrowserIsVisible: the events delivered after the call
emitEventIfBrowserIsVisible(isVisible, sent) == IF isVisible THEN sent + 1 ELSE sent

\* lines 182-196: the events delivered after sendVisualizerData has run with
\* this web view
sendVisualizerDataTo(view, isVisible, sent) ==
    IF view = Null THEN sent
    ELSE emitEventIfBrowserIsVisible(isVisible, sent)

\* lines 174-197
sendVisualizerData(sent) == sendVisualizerDataTo(webView, visible, sent)

\* lines 169-172
timerCallback ==
    /\ pc = "running"
    /\ timerHz > 0
    /\ ticks < MaxTicks
    /\ ticks' = ticks + 1
    /\ delivered' = sendVisualizerData(delivered)
    /\ UNCHANGED <<pc, devMode, fs, relays, resourcesDir, options, webView, currentURL,
                   attachments, timerHz, visible, lastUrl, lastResponse, lastRead,
                   apvtsParams, created, destroyed>>

\* the order in which the members are destroyed once the destructor's body has
\* run: the reverse of their declaration in PluginEditor.h
MemberDestructionOrder == << "attachments", "relays", "webView" >>

\* the teardown step that follows n destroyed members
TeardownStep(n) ==
    IF n < Len(MemberDestructionOrder) THEN MemberDestructionOrder[n + 1] ELSE "destroyed"

Destructor_KeepsTimer ==
    /\ pc = "running"
    /\ pc' = TeardownStep(0)
    /\ UNCHANGED <<devMode, fs, relays, resourcesDir, options, webView, currentURL,
                   attachments, timerHz, visible, ticks, delivered, lastUrl, lastResponse,
                   lastRead, apvtsParams, created, destroyed>>

\* the destructor's body, lines 34-37: stopTimer()
Destructor ==
    /\ pc = "running"
    /\ timerHz' = 0
    /\ destroyed' = Append(destroyed, "timer")
    /\ pc' = TeardownStep(0)
    /\ UNCHANGED <<devMode, fs, relays, resourcesDir, options, webView, currentURL,
                   attachments, visible, ticks, delivered, lastUrl, lastResponse, lastRead,
                   apvtsParams, created>>

\* the members are destroyed after the destructor's body, line 37
DestroyAttachments ==
    /\ pc = "attachments"
    /\ attachments' = << >>
    /\ destroyed' = Append(destroyed, "attachments")
    /\ pc' = TeardownStep(Len(destroyed))
    /\ UNCHANGED <<devMode, fs, relays, resourcesDir, options, webView, currentURL,
                   timerHz, visible, ticks, delivered, lastUrl, lastResponse, lastRead,
                   apvtsParams, created>>

DestroyRelays ==
    /\ pc = "relays"
    /\ relays' = << >>
    /\ destroyed' = Append(destroyed, "relays")
    /\ pc' = TeardownStep(Len(destroyed))
    /\ UNCHANGED <<devMode, fs, resourcesDir, options, webView, currentURL, attachments,
                   timerHz, visible, ticks, delivered, lastUrl, lastResponse, lastRead,
                   apvtsParams, created>>

DestroyWebView ==
    /\ pc = "webView"
    /\ webView' = Null
    /\ visible' = FALSE
    /\ destroyed' = Append(destroyed, "webView")
    /\ pc' = TeardownStep(Len(destroyed))
    /\ UNCHANGED <<devMode, fs, relays, resourcesDir, options, currentURL, attachments,
                   timerHz, ticks, delivered, lastUrl, lastResponse, lastRead,
                   apvtsParams, created>>

Next ==
    \/ CreateRelays
    \/ SetResourcesDir
    \/ BuildOptions
    \/ CreateWebView
    \/ Navigate
    \/ CreateAttachments
    \/ StartTimer
    \/ \E url \in ShellUrls : ResourceRequest(url)
    \/ ServeRequest
    \/ \E b \in BOOLEAN : SetVisible(b)
    \/ timerCallback
    \/ Destructor
    \/ DestroyAttachments
    \/ DestroyRelays
    \/ DestroyWebView

Spec == Init /\ [][Next]_vars

---------------------------------------------------------------------------
(* The resource provider alone: a constructed editor, any file system and   *)
(* any URL of RequestUrls about to be served                                *)

ProviderInit ==
    /\ pc = "ResourceProvider"
    /\ devMode \in BOOLEAN
    /\ fs \in FileSystems
    /\ relays = CreatedRelays
    /\ resourcesDir = ResourcesDirOf(ExeDir)
    /\ options = BuiltOptions(CreatedRelays)
    /\ webView = Some([options |-> BuiltOptions(CreatedRelays)])
    /\ currentURL = Some(InitialURL(devMode))
    /\ attachments = CreatedAttachments
    /\ timerHz = TimerHz
    /\ visible = TRUE
    /\ ticks = 0
    /\ delivered = 0
    /\ \E url \in RequestUrls : lastUrl = Some(url)
    /\ lastResponse = NotFound
    /\ lastRead = Null
    /\ apvtsParams = ParameterIds
    /\ created = << "relays", "webView", "attachments", "timer" >>
    /\ destroyed = << >>

ProviderNext == ServeRequest

ProviderSpec == ProviderInit /\ [][ProviderNext]_vars

---------------------------------------------------------------------------
(* Claims *)

\* a file lies under the asset root
InsideRoot(file) == Len(file) > Len(RootDir) /\ SubSeq(file, 1, Len(RootDir)) = RootDir

\* a request has been served and its answer returned
Served == pc = "running" /\ lastUrl # Null

Resource(file, mime) == Some([data |-> BytesOf(file), mimeType |-> mime])

\* C4: a requested path whose resolved location lies outside the asset root is
\* answered NotFound, never with the bytes of a file outside the root.
C4_TraversalRejected ==
    (Served /\ ~InsideRoot(RequestedFile(RootDir, lastUrl[1]))) => lastResponse = NotFound

\* C5: exactly one leading separator is stripped and the empty path becomes the
\* root document: "" and "/" are answered with index.html whenever it exists
\* (and with NotFound when it does not), as "index.html" and "/index.html" are;
\* "//" and "//index.html" keep their second separator and are not.
C5_RootDocument ==
    Served =>
        LET url == lastUrl[1]
            root == IF IndexFile \in DOMAIN fs THEN Resource(IndexFile, "text/html")
                    ELSE NotFound
        IN  /\ url \in { << >>, <<"/">>, <<"i", "n", "d", "e", "x", ".", "h", "t", "m", "l">>, <<"/", "i", "n", "d", "e", "x", ".", "h", "t", "m", "l">> } => lastResponse = root
            /\ url \in { <<"/", "/">>, <<"/", "/", "i", "n", "d", "e", "x", ".", "h", "t", "m", "l">> } => lastResponse = NotFound

C5_Witness ==
    Served /\ lastUrl = Some(<<"/">>) /\ lastResponse = Resource(IndexFile, "text/html")

\* the extension of a file name: what follows its last ".", Null without one
RECURSIVE ExtensionOf(_)
ExtensionOf(name) ==
    IF \A i \in 1..Len(name) : name[i] # "." THEN Null
    ELSE LET rest == Tail(name)
         IN  IF \E i \in 1..Len(rest) : rest[i] = "." THEN ExtensionOf(rest)
             ELSE IF Head(name) = "." THEN Some(rest)
             ELSE ExtensionOf(rest)

MimeTable ==
    { << <<"h", "t", "m", "l">>, "text/html" >>, << <<"c", "s", "s">>, "text/css" >>,
      << <<"j", "s">>, "application/javascript" >>, << <<"j", "s", "o", "n">>, "application/json" >>,
      << <<"p", "n", "g">>, "image/png" >>, << <<"j", "p", "g">>, "image/jpeg" >>, << <<"j", "p", "e", "g">>, "image/jpeg" >>,
      << <<"s", "v", "g">>, "image/svg+xml" >>, << <<"w", "o", "f", "f">>, "font/woff" >>,
      << <<"w", "o", "f", "f", "2">>, "font/woff2" >> }

TableType(ext) ==
    IF \E e \in MimeTable : Some(e[1]) = ext
    THEN (CHOOSE e \in MimeTable : Some(e[1]) = ext)[2]
    ELSE "application/octet-stream"

\* C6: the MIME type of every served file is the table's entry for the extension
\* of its name, and application/octet-stream when the table has none.
C6_MimeByExtension ==
    (Served /\ lastResponse # NotFound) =>
        /\ lastRead # Null
        /\ lastResponse[1].mimeType = TableType(ExtensionOf(lastRead[1][Len(lastRead[1])]))

C6_Witness ==
    /\ Served
    /\ lastResponse = Resource(RootDir \o << <<"a", ".", "w", "o", "f", "f", "2">> >>, "font/woff2")

\* C7: a request for which no regular file exists under the asset root is
\* answered NotFound and reads no file.
C7_UnknownResourceNotFound ==
    (Served /\ ~(/\ InsideRoot(RequestedFile(RootDir, lastUrl[1]))
                 /\ RequestedFile(RootDir, lastUrl[1]) \in DOMAIN fs))
        => (lastResponse = NotFound /\ lastRead = Null)

\* C7, the rest of it: a request, whatever its answer, leaves the editor running
\* and its relays, attachments, web view and timer as they were.
C7_RequestIsNotFatal ==
    [][(pc = "ResourceProvider" \/ pc' = "ResourceProvider") =>
          /\ pc' \in { "running", "ResourceProvider" }
          /\ UNCHANGED <<relays, attachments, webView, options, timerHz, fs>>]_vars

C10_RelaysBeforeWebView ==
    [][/\ (webView = Null /\ webView' # Null) =>
              /\ DOMAIN relays = RelaySlots
              /\ { r.identifier : r \in options.relays } = RelayIds
              /\ options.relays = { [identifier |-> relays[slot].identifier,
                                     kind |-> relays[slot].kind] : slot \in RelaySlots }
              /\ webView'[1].options.relays = options.relays
       /\ (webView # Null /\ webView' # Null) =>
              webView'[1].options.relays = webView[1].options.relays
       /\ webView # Null => (DOMAIN relays' \subseteq DOMAIN relays /\ options' = options)]_vars

C10_Witness ==
    /\ pc = "running"
    /\ webView # Null
    /\ { r.identifier : r \in webView[1].options.relays } = RelayIds

\* C17: while the editor holds its relays, every parameter identifier has exactly
\* one relay; at all times it has at most one attachment, and every attachment
\* has a relay of its own, which exists.
C17_IdentityUniqueness ==
    /\ relays # << >> =>
           \A id \in RelayIds :
               Cardinality({ slot \in DOMAIN relays : relays[slot].identifier = id }) = 1
    /\ \A id \in RelayIds :
           Cardinality({ a \in DOMAIN attachments : attachments[a].parameter = id }) <= 1
    /\ \A a, b \in DOMAIN attachments :
           attachments[a].relay = attachments[b].relay => a = b
    /\ \A a \in DOMAIN attachments : attachments[a].relay \in DOMAIN relays

C17_Witness ==
    /\ pc = "running"
    /\ DOMAIN relays = RelaySlots
    /\ DOMAIN attachments = AttachmentSlots

Reverse(s) == [i \in 1..Len(s) |-> s[Len(s) + 1 - i]]

PastAttachments == pc \notin { "CreateRelays", "SetResourcesDir", "BuildOptions",
                               "CreateWebView", "Navigate", "CreateAttachments", "crashed" }

\* C13: when the APVTS lacks a parameter an attachment asks for, construction
\* fails: no attachment is bound to a missing parameter and the editor never
\* gets past the creation of its attachments.
C13_UnknownParameterIsFatal ==
    /\ \A a \in DOMAIN attachments : attachments[a].parameter \in apvtsParams
    /\ PastAttachments => ParameterIds \subseteq apvtsParams

\* C19: the timer is started only once the web view, the relays and the
\* attachments exist; a timer callback delivers at most one event; run without
\* a web view, sendVisualizerData delivers nothing; once the destructor has
\* stopped the timer nothing more is delivered.
C19_TimerWithinLifetime ==
    [][/\ (timerHz = 0 /\ timerHz' > 0) =>
              /\ webView # Null
              /\ DOMAIN relays = RelaySlots
              /\ DOMAIN attachments = AttachmentSlots
       /\ timerHz > 0 => (webView # Null /\ relays # << >> /\ attachments # << >>)
       /\ ticks' = ticks + 1 => delivered' \in { delivered, delivered + 1 }
       /\ ticks' = ticks => delivered' = delivered
       /\ \A v \in BOOLEAN : sendVisualizerDataTo(Null, v, delivered) = delivered
       /\ destroyed # << >> => (timerHz' = 0 /\ ticks' = ticks /\ delivered' = delivered)]_vars

C19_Witness ==
    /\ pc = "destroyed"
    /\ ticks = 2
    /\ delivered = 1

===========================================================================
